---- MODULE Spec2Model ----
(***************************************************************************)
(* Staged build and publish pipeline of the static-site generator          *)
(* (src/jackman/build.py, class Builder).                                  *)
(*                                                                         *)
(* Every build is one process (main() constructs one Builder and calls     *)
(* build()); the processes share the project directory: the live           *)
(* directory _website, the "next" directory _website_new, the staging      *)
(* directories _tmp_<seconds> and the wall clock.  A directory is a record *)
(* [ex, ents]: whether it exists and the set of its entries; an entry is   *)
(* [dir, name, c]: its sub folder ("" for the top level), its file name    *)
(* split at the dots (<<>> for the sub folder itself) and its content.     *)
(* A content [kind, of, rev] says what the file was made from: the source  *)
(* file and the revision of the sources the build read.                    *)
(*                                                                         *)
(* The stages of build() write into the staging directory of the build     *)
(* only and are one action each; _dispatch_build works on the shared       *)
(* directories and is one action per filesystem operation.  Expects        *)
(* (jackman.helpers) suppresses the listed exceptions.  copy_tree keeps a  *)
(* cache of the directories it created per process; every build being a    *)
(* process of its own, the cache is empty when a build publishes.          *)
(*                                                                         *)
(* The process of a build is the command line (src/pavo/cli/_cli.py,       *)
(* _main) running the build command: it reports what build() raises and    *)
(* exits.  load_files (jackman.helpers) and error (pavo.cli._messages) are *)
(* not among the sources; LoadFiles and ErrorExits say what is assumed of  *)
(* them.                                                                   *)
(***************************************************************************)
EXTENDS Integers, Sequences, FiniteSets, TLC

\* Last value of the wall clock in whole seconds, int(time.time()).
MaxClock == 1

Builders == {1, 2}

VARIABLES
    clock,        \* int(time.time())
    website,      \* the directory _website
    website_new,  \* the directory _website_new
    tmp,          \* tmp[t]: the directory _tmp_<t>
    pc,           \* pc[b]: where build b stands
    mode,         \* pc[b] # "new": Builder.mode
    proj,         \* the source tree build b reads
    tmp_dir,      \* Builder.tmp_dir (NoTmp before os.mkdir succeeded)
    todo,         \* entries left to the copy_tree / rmtree in progress
    err,          \* the exception that ended build(), "" if none
    warnings,     \* what log.exception and log.info recorded for the build
    images,       \* Builder.images, the image registry
    exit_code,    \* the exit code of the process of build b, once it has exited
    staged,       \* history: the staging tree when _clean_tmp returned
    liveBefore,   \* history: _website when _dispatch_build was entered
    nextBefore,   \* history: _website_new when _dispatch_build was entered
    started,      \* history: the builds in the order of their construction
    killedAt      \* history: pc of the build when its process was killed

vars == <<clock, website, website_new, tmp, pc, mode, proj, tmp_dir, todo,
          err, warnings, images, exit_code, staged, liveBefore, nextBefore,
          started, killedAt>>

NoTmp == -1

----------------------------------------------------------------------------
\* Directories and entries

Absent == [ex |-> FALSE, ents |-> {}]
EmptyDir == [ex |-> TRUE, ents |-> {}]

DirContent == [kind |-> "dir", of |-> <<>>, rev |-> 0]

Folder(d) == [dir |-> d, name |-> <<>>, c |-> DirContent]
File(d, n, k, o, r) == [dir |-> d, name |-> n, c |-> [kind |-> k, of |-> o, rev |-> r]]

\* Stands for the destination directory itself in a copy_tree (mkpath(dst)).
Root == Folder("")

IsFolder(e) == e.name = <<>>
SamePath(e, f) == e.dir = f.dir /\ e.name = f.name
HasPath(ents, e) == \E x \in ents : SamePath(x, e)

\* Writing a file or creating a folder at a path replaces what was there.
Put(ents, e) == {x \in ents : ~SamePath(x, e)} \cup {e}
Del(ents, e) == {x \in ents : ~SamePath(x, e)}

----------------------------------------------------------------------------
\* File names

\* str.endswith('.' + ext) on a name split at its dots.
EndsWith(name, ext) == Len(name) >= 2 /\ name[Len(name)] = ext

IsMarkdown(name) == EndsWith(name, "md") \/ EndsWith(name, "markdown")
IsSass(name) == EndsWith(name, "sass") \/ EndsWith(name, "scss")

\* The names of the model that start with an underscore (str.startswith('_')).
UnderscoreNames == {"_templates", "_pages", "_static", "_website", "_website_new"}
StartsWithUnderscore(d) == d \in UnderscoreNames

\* re.sub('.s[ac]ss$', '.css', name): the last extension becomes css.
CompiledName(name) == SubSeq(name, 1, Len(name) - 1) \o <<"css">>

----------------------------------------------------------------------------
\* Builder._copy_to_tmp: the sub folder is created when it is missing, then
\* the file is copied into it under its own name.
CopyToTmp(ents, sub, name, k, r) ==
    LET withSub == IF sub # "" /\ ~HasPath(ents, Folder(sub))
                   THEN Put(ents, Folder(sub)) ELSE ents
    IN  Put(withSub, File(sub, name, k, name, r))

RECURSIVE CopyAllToTmp(_, _, _, _, _)
CopyAllToTmp(ents, sub, names, k, r) ==
    IF names = {} THEN ents
    ELSE LET n == CHOOSE x \in names : TRUE
         IN  CopyAllToTmp(CopyToTmp(ents, sub, n, k, r), sub, names \ {n}, k, r)

\* What a stage hands back: the staging tree, the exception it raised ("" if
\* it returned) and the warnings it logged.
Returned(ents, w) == [t |-> ents, err |-> "", warn |-> w]
Raised(ents, e, w) == [t |-> ents, err |-> e, warn |-> w]

\* Mutant: a missing _templates is logged and taken for an empty directory.
LoadTemplatesLenient(p, ents, r) ==
    IF ~p.templates.ex THEN Returned(ents, {[info |-> "Could not find _templates"]})
    ELSE Returned(CopyAllToTmp(ents, "_templates", p.templates.files, "template", r), {})

\* Builder._load_templates: os.listdir('_templates/') raises when the
\* directory is missing; every file goes to the sub folder _templates.
LoadTemplates(p, ents, r) ==
    IF ~p.templates.ex THEN Raised(ents, "FileNotFoundError", {})
    ELSE Returned(CopyAllToTmp(ents, "_templates", p.templates.files, "template", r), {})

\* load_files('_static/images/') of jackman.helpers: the registry of the
\* image files found under the directory, sub folders included, by file name;
\* a missing directory raises FileNotFoundError.
LoadFiles(dir) ==
    IF ~dir.ex THEN [err |-> "FileNotFoundError", reg |-> <<>>]
    ELSE [err |-> "", reg |-> [i \in 1..Len(dir.files) |-> dir.files[i].name]]

\* shutil.copy finds '_static/images/<image>' when the file lies directly in
\* the directory.
ImageFound(dir, image) == \E i \in 1..Len(dir.files) :
                             dir.files[i].name = image /\ dir.files[i].sub = ""

\* for image in self.images: self._copy_to_tmp(f'_static/images/{image}', 'images/')
RECURSIVE CopyImages(_, _, _, _)
CopyImages(dir, ents, reg, r) ==
    IF reg = <<>> THEN Returned(ents, {})
    ELSE IF ~ImageFound(dir, Head(reg)) THEN Raised(ents, "FileNotFoundError", {})
    ELSE CopyImages(dir, CopyToTmp(ents, "images", Head(reg), "image", r), Tail(reg), r)

\* What log.info records in the handler of the image block.
ImagesNotFound == [info |-> "Could not find _static/images"]

\* Mutant: the image block without its try/except.
LoadImagesUncaught(p, ents, r) ==
    LET loaded == LoadFiles(p.images)
        copied == CopyImages(p.images, ents, loaded.reg, r)
    IN  IF loaded.err # ""
        THEN [t |-> ents, err |-> loaded.err, warn |-> {}, reg |-> <<>>]
        ELSE [t |-> copied.t, err |-> copied.err, warn |-> {}, reg |-> loaded.reg]

\* Builder.build, the image block: self.images is assigned when _load_images
\* returns; a FileNotFoundError of _load_images or of a copy ends the block,
\* is logged, and the build goes on.
LoadImages(p, ents, r) ==
    LET loaded == LoadFiles(p.images)
        copied == CopyImages(p.images, ents, loaded.reg, r)
    IN  IF loaded.err = "FileNotFoundError"
        THEN [t |-> ents, err |-> "", warn |-> {ImagesNotFound}, reg |-> <<>>]
        ELSE IF copied.err = "FileNotFoundError"
        THEN [t |-> copied.t, err |-> "", warn |-> {ImagesNotFound}, reg |-> loaded.reg]
        ELSE [t |-> copied.t, err |-> copied.err, warn |-> {}, reg |-> loaded.reg]

\* FileSystemLoader(tmp/_templates).get_template(t + '.html')
TemplateFound(ents, t) == HasPath(ents, File("_templates", <<t, "html">>, "", <<>>, 0))

\* frontmatter.loads(f.read()) of the staged file: the front matter of the
\* content file it was copied from.
Opened(p, file) == CHOOSE i \in 1..Len(p.pages) : p.pages[i].name = file

\* Mutant: the TemplateNotFound of get_template is not caught.
BuildMarkdownUncaught(p, ents, file, r) ==
    LET path == file[1]
        data == p.pages[Opened(p, file)]
    IN  IF ~HasPath(ents, File("", file, "", <<>>, 0))
        THEN Raised(ents, "FileNotFoundError", {})
        ELSE IF data.meta = "malformed"
        THEN Raised(ents, "YAMLError", {})
        ELSE IF data.meta # "ok"
        THEN Raised(ents, "KeyError", {})
        ELSE IF TemplateFound(ents, data.template)
        THEN Returned(Put(ents, File("", <<path, "html">>, "html", data.name, r)), {})
        ELSE Raised(ents, "TemplateNotFound", {})

\* Builder._build_markdown(file), file = (path, extension): open() raises
\* when tmp/path.extension is missing, frontmatter.loads when the front
\* matter is not well-formed YAML, data["template"] when there is no such
\* key; only TemplateNotFound is caught.
BuildMarkdown(p, ents, file, r) ==
    LET path == file[1]
        data == p.pages[Opened(p, file)]
    IN  IF ~HasPath(ents, File("", file, "", <<>>, 0))
        THEN Raised(ents, "FileNotFoundError", {})
        ELSE IF data.meta = "malformed"
        THEN Raised(ents, "YAMLError", {})
        ELSE IF data.meta # "ok"
        THEN Raised(ents, "KeyError", {})
        ELSE IF TemplateFound(ents, data.template)
        THEN Returned(Put(ents, File("", <<path, "html">>, "html", data.name, r)), {})
        ELSE Returned(ents, {[page |-> path, template |-> data.template]})

\* Builder._build_pages: the files of _pages in listing order; the file
\* handed to _build_markdown is (page.split('.')[0], page.split('.')[1]);
\* a raise ends the loop and the build.
RECURSIVE BuildPagesFrom(_, _, _, _, _)
BuildPagesFrom(p, ents, pages, r, w) ==
    IF pages = <<>> THEN Returned(ents, w)
    ELSE LET page == Head(pages).name
         IN  IF ~IsMarkdown(page) THEN BuildPagesFrom(p, ents, Tail(pages), r, w)
             ELSE LET file == <<page[1], page[2]>>
                      res == BuildMarkdown(p, CopyToTmp(ents, "", page, "md", r), file, r)
                  IN  IF res.err # "" THEN Raised(res.t, res.err, w \cup res.warn)
                      ELSE BuildPagesFrom(p, res.t, Tail(pages), r, w \cup res.warn)

BuildPages(p, ents, r) == BuildPagesFrom(p, ents, p.pages, r, {})

\* Builder._build_posts
BuildPosts(ents) == Returned(Put(ents, Folder("posts")), {})

\* sass.compile(dirname=('static/styles/', tmp/styles/)): every .sass/.scss
\* of the directory is compiled to a .css of the same base name; a missing
\* directory and a syntax error both raise.
RECURSIVE CompileFiles(_, _, _)
CompileFiles(ents, files, r) ==
    IF files = {} THEN Returned(ents, {})
    ELSE LET f == CHOOSE x \in files : TRUE
         IN  IF ~IsSass(f.name) THEN CompileFiles(ents, files \ {f}, r)
             ELSE IF ~f.ok THEN Raised(ents, "CompileError", {})
             ELSE CompileFiles(Put(ents, File("styles", CompiledName(f.name), "compiled", f.name, r)),
                               files \ {f}, r)

SassCompile(dir, ents, r) ==
    IF ~dir.ex THEN Raised(ents, "FileNotFoundError", {})
    ELSE CompileFiles(ents, dir.files, r)

\* Mutant: the plain .css files are copied first and the compilation runs
\* over them.
BuildStylesCopyFirst(p, ents, r) ==
    LET made == Put(ents, Folder("styles"))
        anySass == p.styles.ex /\ \E f \in p.styles.files : IsSass(f.name)
        css == {f.name : f \in {x \in p.styles.files : EndsWith(x.name, "css")}}
        copied == CopyAllToTmp(made, "styles", css, "css", r)
    IN  IF ~p.styles.ex THEN Raised(made, "FileNotFoundError", {})
        ELSE IF anySass THEN SassCompile(p.static_styles, copied, r)
        ELSE Returned(copied, {})

\* Builder._build_styles: mkdir, the compilation when glob finds a .sass or
\* .scss in _static/styles, then the copy of the .css files of _static/styles.
BuildStyles(p, ents, r) ==
    LET made == Put(ents, Folder("styles"))
        anySass == p.styles.ex /\ \E f \in p.styles.files : IsSass(f.name)
        compiled == IF anySass THEN SassCompile(p.static_styles, made, r)
                    ELSE Returned(made, {})
        css == {f.name : f \in {x \in p.styles.files : EndsWith(x.name, "css")}}
    IN  IF compiled.err # "" THEN compiled
        ELSE IF ~p.styles.ex THEN Raised(compiled.t, "FileNotFoundError", {})
        ELSE Returned(CopyAllToTmp(compiled.t, "styles", css, "css", r), {})

\* Builder._clean_tmp: os.path.isdir(file) looks the name up in the working
\* directory, not in the staging directory.
CleanTmp(p, ents) ==
    LET rmtree == {e \in ents : e.dir \in p.cwd_dirs /\ StartsWithUnderscore(e.dir)}
        remove == {e \in ents : e.dir = "" /\ ~IsFolder(e) /\ IsMarkdown(e.name)}
    IN  Returned((ents \ rmtree) \ remove, {})

----------------------------------------------------------------------------
\* distutils.dir_util.copy_tree(src, dst) and shutil.rmtree(dir), one
\* filesystem operation at a time.  Both list a directory once and then work
\* through the listing.

Ok(d) == [d |-> d, err |-> ""]
Bad(d, e) == [d |-> d, err |-> e]

\* The next entry of a copy_tree: mkpath(dst) first; a sub folder is created
\* and then filled before the next name of the listing is looked at.
CopyPick(td) ==
    IF Root \in td THEN Root
    ELSE IF \E e \in td : ~IsFolder(e) /\ e.dir # "" /\ Folder(e.dir) \notin td
    THEN CHOOSE e \in td : ~IsFolder(e) /\ e.dir # "" /\ Folder(e.dir) \notin td
    ELSE IF \E e \in td : IsFolder(e) THEN CHOOSE e \in td : IsFolder(e)
    ELSE CHOOSE e \in td : TRUE

\* mkpath creates the missing parents of a folder; copy_file raises when the
\* folder it writes into is missing.
CopyOne(dst, e) ==
    IF e = Root THEN (IF dst.ex THEN Ok(dst) ELSE Ok(EmptyDir))
    ELSE IF IsFolder(e) THEN Ok([ex |-> TRUE, ents |-> Put(dst.ents, e)])
    ELSE IF ~dst.ex \/ (e.dir # "" /\ ~HasPath(dst.ents, Folder(e.dir)))
    THEN Bad(dst, "DistutilsFileError")
    ELSE Ok([dst EXCEPT !.ents = Put(@, e)])

\* The next entry of an rmtree: the files of a sub folder, then the folder.
FilesIn(ents, d) == {f \in ents : ~IsFolder(f) /\ f.dir = d}
RmPick(td) ==
    IF \E e \in td : IsFolder(e) /\ FilesIn(td, e.dir) = {}
    THEN CHOOSE e \in td : IsFolder(e) /\ FilesIn(td, e.dir) = {}
    ELSE IF \E e \in td : e.dir # "" THEN CHOOSE e \in td : ~IsFolder(e) /\ e.dir # ""
    ELSE CHOOSE e \in td : TRUE

\* os.unlink / os.rmdir of one listed entry.
RmOne(d, e) ==
    IF ~HasPath(d.ents, e) THEN Bad(d, "FileNotFoundError")
    ELSE IF IsFolder(e) /\ FilesIn(d.ents, e.dir) # {} THEN Bad(d, "OSError")
    ELSE Ok([d EXCEPT !.ents = Del(@, e)])

\* os.rmdir of the directory itself, the last operation of an rmtree.
RmDir(d) ==
    IF ~d.ex THEN Bad(d, "FileNotFoundError")
    ELSE IF d.ents # {} THEN Bad(d, "OSError")
    ELSE Ok(Absent)

\* One step of an rmtree of directory d with listing td.
RmtreeStep(d, td) == IF td = {} THEN RmDir(d) ELSE RmOne(d, RmPick(td))

----------------------------------------------------------------------------
\* The source trees a build may read.

Page(n, t) == [name |-> n, meta |-> "ok", template |-> t]
Src(n) == [name |-> n, ok |-> TRUE]

Site ==
    [templates |-> [ex |-> TRUE, files |-> {<<"base", "html">>}],
     images |-> [ex |-> FALSE, files |-> <<>>],
     pages |-> <<Page(<<"index", "md">>, "base")>>,
     styles |-> [ex |-> TRUE, files |-> {Src(<<"main", "css">>)}],
     static_styles |-> [ex |-> FALSE, files |-> {}],
     cwd_dirs |-> {"_templates", "_pages", "_static"}]

\* A page names a template that does not exist; the pages after it are fine.
GhostTemplate ==
    [Site EXCEPT !.pages = <<Page(<<"about", "md">>, "ghost"),
                             Page(<<"news", "markdown">>, "base"),
                             Page(<<"notes", "txt">>, "base")>>]

NoTemplatesDir == [Site EXCEPT !.templates = [ex |-> FALSE, files |-> {}]]
NoStylesDir == [Site EXCEPT !.styles = [ex |-> FALSE, files |-> {}]]

\* A preprocessor stylesheet with a syntax error.
BadSass ==
    [Site EXCEPT !.styles = [ex |-> TRUE, files |-> {Src(<<"main", "scss">>)}],
                 !.static_styles = [ex |-> TRUE,
                                    files |-> {[name |-> <<"main", "scss">>, ok |-> FALSE]}]]

\* The source trees of the builds that run side by side or back to back.
Projects == {Site, GhostTemplate, NoTemplatesDir, NoStylesDir}

\* An image file of _static/images: its name and the sub folder it lies in.
Img(n, d) == [name |-> n, sub |-> d]

WithImages ==
    [Site EXCEPT !.images = [ex |-> TRUE,
                             files |-> <<Img(<<"logo", "png">>, ""),
                                         Img(<<"photo", "png">>, "")>>]]

\* One image lies in a sub folder of _static/images.
NestedImage ==
    [Site EXCEPT !.images = [ex |-> TRUE,
                             files |-> <<Img(<<"logo", "png">>, ""),
                                         Img(<<"icon", "png">>, "icons"),
                                         Img(<<"photo", "png">>, "")>>]]

\* _static/styles holds main.css and main.scss; static/styles holds a
\* main.scss as well, so the compilation writes a main.css.
Collision ==
    [Site EXCEPT !.styles = [ex |-> TRUE, files |-> {Src(<<"main", "css">>),
                                                     Src(<<"main", "scss">>)}],
                 !.static_styles = [ex |-> TRUE, files |-> {Src(<<"main", "scss">>)}]]

\* _static/styles holds a preprocessor stylesheet; there is no static/styles,
\* or an empty one.
SassOnly ==
    [Site EXCEPT !.styles = [ex |-> TRUE, files |-> {Src(<<"theme", "scss">>)}]]
StrayStatic ==
    [Site EXCEPT !.styles = [ex |-> TRUE, files |-> {Src(<<"main", "css">>),
                                                     Src(<<"theme", "scss">>)}],
                 !.static_styles = [ex |-> TRUE, files |-> {}]]

\* Content files whose base name holds a dot.
DottedName == [Site EXCEPT !.pages = <<Page(<<"v1", "2", "md">>, "base")>>]
ShadowedName ==
    [Site EXCEPT !.pages = <<Page(<<"notes", "md">>, "base"),
                             Page(<<"notes", "md", "md">>, "base")>>]

\* Content files without a usable front matter, followed by a sound one.
NoMetaKeys ==
    [Site EXCEPT !.pages = <<[name |-> <<"about", "md">>, meta |-> "none", template |-> ""],
                             Page(<<"index", "md">>, "base")>>]
MalformedMeta ==
    [Site EXCEPT !.pages = <<[name |-> <<"about", "md">>, meta |-> "malformed", template |-> ""],
                             Page(<<"index", "md">>, "base")>>]

\* The directory _templates is gone from the working directory by the time
\* _clean_tmp looks for it.
TemplatesGone == [Site EXCEPT !.cwd_dirs = {"_pages", "_static"}]

\* The source trees of the builds that are studied one at a time.
Sources ==
    Projects \cup {BadSass, WithImages, NestedImage, Collision, SassOnly,
                   StrayStatic, DottedName, ShadowedName, NoMetaKeys,
                   MalformedMeta, TemplatesGone}

Modes == {"production", "development"}

\* The live site an earlier build published, and what an interrupted publish
\* left of a "next" directory.
OldSite ==
    [ex |-> TRUE,
     ents |-> {Folder("posts"), Folder("styles"),
               File("styles", <<"main", "css">>, "css", <<"main", "css">>, 0),
               File("", <<"index", "html">>, "html", <<"index", "md">>, 0),
               File("", <<"legacy", "html">>, "html", <<"legacy", "md">>, 0)}]

Leftover ==
    [ex |-> TRUE,
     ents |-> {File("", <<"stale", "html">>, "html", <<"stale", "md">>, 0)}]

NoErr == [at |-> "", exc |-> ""]
NotExited == [exited |-> FALSE, code |-> 0]
Exited(c) == [exited |-> TRUE, code |-> c]
Unset == [set |-> FALSE, ex |-> FALSE, ents |-> {}]
Snapshot(d) == [set |-> TRUE, ex |-> d.ex, ents |-> d.ents]

\* The revision of the sources build b reads: the sources are edited between
\* two builds, so the files of two builds differ.
Rev(b) == b

----------------------------------------------------------------------------
Init ==
    /\ clock = 0
    /\ website \in {Absent, OldSite}
    /\ website_new \in {Absent, Leftover}
    /\ tmp = [t \in 0..MaxClock |-> Absent]
    /\ pc = [b \in Builders |-> "new"]
    /\ mode = [b \in Builders |-> "production"]
    /\ proj = [b \in Builders |-> Site]
    /\ tmp_dir = [b \in Builders |-> NoTmp]
    /\ todo = [b \in Builders |-> {}]
    /\ err = [b \in Builders |-> NoErr]
    /\ warnings = [b \in Builders |-> {}]
    /\ images = [b \in Builders |-> <<>>]
    /\ exit_code = [b \in Builders |-> NotExited]
    /\ staged = [b \in Builders |-> Unset]
    /\ liveBefore = [b \in Builders |-> Unset]
    /\ nextBefore = [b \in Builders |-> Unset]
    /\ started = <<>>
    /\ killedAt = [b \in Builders |-> ""]

\* time.time() moves on.
Tick ==
    /\ clock < MaxClock
    /\ clock' = clock + 1
    /\ UNCHANGED <<website, website_new, tmp, pc, mode, proj, tmp_dir, todo,
                   err, warnings, images, exit_code, staged, liveBefore,
                   nextBefore, started, killedAt>>

\* sys.exit() without an argument ends the process with exit status 0.
SysExit == 0

\* error(message, err) of pavo.cli._messages reports the error and returns:
\* it does not end the process.
ErrorExits == FALSE

\* _main of the command line: what the command raises is caught and handed
\* to error(); both paths then reach the sys.exit() at the end.
MainExit(raised) == IF raised /\ ErrorExits THEN 1 ELSE SysExit

\* An exception leaves build() at the point where build b stands; the
\* command line reports it and the process exits.
Raise(b, exc) ==
    /\ pc' = [pc EXCEPT ![b] = "failed"]
    /\ err' = [err EXCEPT ![b] = [at |-> pc[b], exc |-> exc]]
    /\ exit_code' = [exit_code EXCEPT ![b] = Exited(MainExit(TRUE))]

\* The build goes on; when build() has returned the process exits.
Goto(b, next) ==
    /\ pc' = [pc EXCEPT ![b] = next]
    /\ err' = err
    /\ exit_code' = IF next = "done"
                    THEN [exit_code EXCEPT ![b] = Exited(MainExit(FALSE))]
                    ELSE exit_code

\* Builder.__init__: the staging directory is named after the second in which
\* the build starts; os.mkdir raises when the directory exists.
ConstructFrom(b, sources) ==
    /\ pc[b] = "new"
    /\ \E m \in Modes, p \in sources :
         /\ mode' = [mode EXCEPT ![b] = m]
         /\ proj' = [proj EXCEPT ![b] = p]
    /\ started' = Append(started, b)
    /\ IF tmp[clock].ex
       THEN /\ Raise(b, "FileExistsError")
            /\ UNCHANGED <<tmp, tmp_dir>>
       ELSE /\ tmp' = [tmp EXCEPT ![clock] = EmptyDir]
            /\ tmp_dir' = [tmp_dir EXCEPT ![b] = clock]
            /\ Goto(b, "load_templates")
    /\ UNCHANGED <<clock, images, website, website_new, todo, warnings, staged,
                   liveBefore, nextBefore, killedAt>>

Construct(b) == ConstructFrom(b, Projects)
ConstructAny(b) == ConstructFrom(b, Sources)

\* Mutant: what a stage raises is swallowed and the build goes on.
RunStageSwallowing(b, res, next) ==
    /\ tmp' = [tmp EXCEPT ![tmp_dir[b]].ents = res.t]
    /\ warnings' = [warnings EXCEPT ![b] = @ \cup res.warn]
    /\ pc' = [pc EXCEPT ![b] = next]
    /\ err' = IF res.err # "" THEN [err EXCEPT ![b] = [at |-> pc[b], exc |-> res.err]] ELSE err
    /\ exit_code' = exit_code
    /\ UNCHANGED <<clock, website, website_new, mode, proj, tmp_dir, todo,
                   liveBefore, nextBefore, started, killedAt>>

\* One stage of Builder.build: it writes into the staging directory of the
\* build only; what it raises ends the build.
RunStage(b, res, next) ==
    /\ tmp' = [tmp EXCEPT ![tmp_dir[b]].ents = res.t]
    /\ warnings' = [warnings EXCEPT ![b] = @ \cup res.warn]
    /\ IF res.err # "" THEN Raise(b, res.err) ELSE Goto(b, next)
    /\ UNCHANGED <<clock, website, website_new, mode, proj, tmp_dir, todo,
                   liveBefore, nextBefore, started, killedAt>>

Staging(b) == tmp[tmp_dir[b]].ents

\* Mutant: the image block is left out and the pages come right after the
\* templates.
StageTemplatesThenPages(b) ==
    /\ pc[b] = "load_templates"
    /\ RunStage(b, LoadTemplates(proj[b], Staging(b), Rev(b)), "build_pages")
    /\ UNCHANGED <<staged, images>>

StageTemplates(b) ==
    /\ pc[b] = "load_templates"
    /\ RunStage(b, LoadTemplates(proj[b], Staging(b), Rev(b)), "load_images")
    /\ UNCHANGED <<staged, images>>

StageImages(b) ==
    /\ pc[b] = "load_images"
    /\ LET res == LoadImages(proj[b], Staging(b), Rev(b))
       IN  /\ RunStage(b, res, "build_pages")
           /\ images' = [images EXCEPT ![b] = res.reg]
    /\ UNCHANGED staged

StagePages(b) ==
    /\ pc[b] = "build_pages"
    /\ RunStage(b, BuildPages(proj[b], Staging(b), Rev(b)), "build_posts")
    /\ UNCHANGED <<staged, images>>

StagePosts(b) ==
    /\ pc[b] = "build_posts"
    /\ RunStage(b, BuildPosts(Staging(b)), "build_styles")
    /\ UNCHANGED <<staged, images>>

StageStyles(b) ==
    /\ pc[b] = "build_styles"
    /\ RunStage(b, BuildStyles(proj[b], Staging(b), Rev(b)), "clean_tmp")
    /\ UNCHANGED <<staged, images>>

\* Mutant: the mode is not looked at and every build publishes.
AfterCleanAnyMode(m) == "mk_new"

\* _clean_tmp, then the test of the mode: a development build returns here.
AfterClean(m) == IF m = "development" THEN "done" ELSE "mk_new"

StageClean(b) ==
    /\ pc[b] = "clean_tmp"
    /\ LET res == CleanTmp(proj[b], Staging(b))
       IN  /\ RunStage(b, res, AfterClean(mode[b]))
           /\ staged' = [staged EXCEPT ![b] = Snapshot([ex |-> TRUE, ents |-> res.t])]
    /\ UNCHANGED images

----------------------------------------------------------------------------
\* Builder._dispatch_build, one filesystem operation per action.

\* try: os.mkdir('_website_new') except FileExistsError: the handler starts
\* at onExists.
TryMkNew(b, onExists) ==
    /\ pc[b] = "mk_new"
    /\ liveBefore' = [liveBefore EXCEPT ![b] = Snapshot(website)]
    /\ nextBefore' = [nextBefore EXCEPT ![b] = Snapshot(website_new)]
    /\ IF website_new.ex
       THEN /\ Goto(b, onExists)
            /\ UNCHANGED website_new
       ELSE /\ Goto(b, "mk_site")
            /\ website_new' = EmptyDir
    /\ UNCHANGED <<clock, images, website, tmp, mode, proj, tmp_dir, todo, warnings,
                   staged, started, killedAt>>

\* Mutant: the handler does nothing and the copy goes into what is there.
MkNewKeepingLeftover(b) == TryMkNew(b, "mk_site")

\* FileExistsError leads to the rmtree of the directory.
MkNew(b) == TryMkNew(b, "rm_new_scan")

\* shutil.rmtree('_website_new') lists the directory.
RmNewScan(b) ==
    /\ pc[b] = "rm_new_scan"
    /\ IF website_new.ex
       THEN /\ Goto(b, "rm_new")
            /\ todo' = [todo EXCEPT ![b] = website_new.ents]
       ELSE /\ Raise(b, "FileNotFoundError")
            /\ UNCHANGED todo
    /\ UNCHANGED <<clock, images, website, website_new, tmp, mode, proj, tmp_dir,
                   warnings, staged, liveBefore, nextBefore, started, killedAt>>

\* shutil.rmtree('_website_new') removes the listed entries, then the directory.
RmNew(b) ==
    /\ pc[b] = "rm_new"
    /\ LET res == RmtreeStep(website_new, todo[b])
       IN  IF res.err # ""
           THEN /\ Raise(b, res.err)
                /\ UNCHANGED <<website_new, todo>>
           ELSE /\ website_new' = res.d
                /\ IF todo[b] = {}
                   THEN Goto(b, "mk_new_again") /\ UNCHANGED todo
                   ELSE /\ Goto(b, "rm_new")
                        /\ todo' = [todo EXCEPT ![b] = @ \ {RmPick(@)}]
    /\ UNCHANGED <<clock, images, website, tmp, mode, proj, tmp_dir, warnings, staged,
                   liveBefore, nextBefore, started, killedAt>>

\* except FileExistsError: ... os.mkdir('_website_new')
MkNewAgain(b) ==
    /\ pc[b] = "mk_new_again"
    /\ IF website_new.ex
       THEN /\ Raise(b, "FileExistsError")
            /\ UNCHANGED website_new
       ELSE /\ Goto(b, "mk_site")
            /\ website_new' = EmptyDir
    /\ UNCHANGED <<clock, images, website, tmp, mode, proj, tmp_dir, todo, warnings,
                   staged, liveBefore, nextBefore, started, killedAt>>

\* Mutant: _website is taken to exist and is not created.
MkSiteAssumingLive(b) ==
    /\ pc[b] = "mk_site"
    /\ todo' = [todo EXCEPT ![b] = {Root} \cup Staging(b)]
    /\ Goto(b, "copy_new")
    /\ UNCHANGED <<clock, images, website, website_new, tmp, mode, proj, tmp_dir,
                   warnings, staged, liveBefore, nextBefore, started, killedAt>>

\* with Expects([FileExistsError]): os.mkdir('_website'); then copy_tree lists
\* the staging directory.
MkSite(b) ==
    /\ pc[b] = "mk_site"
    /\ website' = IF website.ex THEN website ELSE EmptyDir
    /\ todo' = [todo EXCEPT ![b] = {Root} \cup Staging(b)]
    /\ Goto(b, "copy_new")
    /\ UNCHANGED <<clock, images, website_new, tmp, mode, proj, tmp_dir, warnings,
                   staged, liveBefore, nextBefore, started, killedAt>>

\* Mutant: the staging directory is removed as soon as it has been copied
\* into _website_new, before the swap.
CopyNewThenDropStaging(b) ==
    /\ pc[b] = "copy_new"
    /\ LET e == CopyPick(todo[b])
           res == CopyOne(website_new, e)
       IN  IF res.err # ""
           THEN /\ Raise(b, res.err)
                /\ UNCHANGED <<website_new, todo>>
           ELSE /\ website_new' = res.d
                /\ IF todo[b] = {e}
                   THEN /\ Goto(b, "rm_tmp")
                        /\ todo' = [todo EXCEPT ![b] = Staging(b)]
                   ELSE /\ Goto(b, "copy_new")
                        /\ todo' = [todo EXCEPT ![b] = @ \ {e}]
    /\ UNCHANGED <<clock, images, website, tmp, mode, proj, tmp_dir, warnings, staged,
                   liveBefore, nextBefore, started, killedAt>>

\* copy_tree(self.tmp_dir, '_website_new')
CopyNew(b) ==
    /\ pc[b] = "copy_new"
    /\ LET e == CopyPick(todo[b])
           res == CopyOne(website_new, e)
       IN  IF res.err # ""
           THEN /\ Raise(b, res.err)
                /\ UNCHANGED <<website_new, todo>>
           ELSE /\ website_new' = res.d
                /\ todo' = [todo EXCEPT ![b] = @ \ {e}]
                /\ Goto(b, IF todo[b] = {e} THEN "rm_site_scan" ELSE "copy_new")
    /\ UNCHANGED <<clock, images, website, tmp, mode, proj, tmp_dir, warnings, staged,
                   liveBefore, nextBefore, started, killedAt>>

\* Mutant: the old _website is not removed and _website_new not renamed;
\* the staging tree is copied over what is live.
RmSiteScanCopyingOver(b) ==
    /\ pc[b] = "rm_site_scan"
    /\ Goto(b, "copy_site")
    /\ todo' = [todo EXCEPT ![b] = {Root} \cup Staging(b)]
    /\ UNCHANGED <<clock, images, website, website_new, tmp, mode, proj, tmp_dir,
                   warnings, staged, liveBefore, nextBefore, started, killedAt>>

\* shutil.rmtree('_website') lists the directory.
RmSiteScan(b) ==
    /\ pc[b] = "rm_site_scan"
    /\ IF website.ex
       THEN /\ Goto(b, "rm_site")
            /\ todo' = [todo EXCEPT ![b] = website.ents]
       ELSE /\ Raise(b, "FileNotFoundError")
            /\ UNCHANGED todo
    /\ UNCHANGED <<clock, images, website, website_new, tmp, mode, proj, tmp_dir,
                   warnings, staged, liveBefore, nextBefore, started, killedAt>>

\* shutil.rmtree('_website') removes the listed entries, then the directory.
RmSite(b) ==
    /\ pc[b] = "rm_site"
    /\ LET res == RmtreeStep(website, todo[b])
       IN  IF res.err # ""
           THEN /\ Raise(b, res.err)
                /\ UNCHANGED <<website, todo>>
           ELSE /\ website' = res.d
                /\ IF todo[b] = {}
                   THEN Goto(b, "rename") /\ UNCHANGED todo
                   ELSE /\ Goto(b, "rm_site")
                        /\ todo' = [todo EXCEPT ![b] = @ \ {RmPick(@)}]
    /\ UNCHANGED <<clock, images, website_new, tmp, mode, proj, tmp_dir, warnings,
                   staged, liveBefore, nextBefore, started, killedAt>>

\* os.rename('_website_new', '_website'): the source must exist and the
\* target must not be a directory with entries; then copy_tree lists the
\* staging directory again.
Rename(b) ==
    /\ pc[b] = "rename"
    /\ IF ~website_new.ex
       THEN /\ Raise(b, "FileNotFoundError")
            /\ UNCHANGED <<website, website_new, todo>>
       ELSE IF website.ex /\ website.ents # {}
       THEN /\ Raise(b, "OSError")
            /\ UNCHANGED <<website, website_new, todo>>
       ELSE /\ website' = website_new
            /\ website_new' = Absent
            /\ todo' = [todo EXCEPT ![b] = {Root} \cup Staging(b)]
            /\ Goto(b, "copy_site")
    /\ UNCHANGED <<clock, images, tmp, mode, proj, tmp_dir, warnings, staged,
                   liveBefore, nextBefore, started, killedAt>>

\* copy_tree(self.tmp_dir, '_website'); then rmtree lists the staging directory.
CopySite(b) ==
    /\ pc[b] = "copy_site"
    /\ LET e == CopyPick(todo[b])
           res == CopyOne(website, e)
       IN  IF res.err # ""
           THEN /\ Raise(b, res.err)
                /\ UNCHANGED <<website, todo>>
           ELSE /\ website' = res.d
                /\ IF todo[b] = {e}
                   THEN /\ Goto(b, "rm_tmp")
                        /\ todo' = [todo EXCEPT ![b] = Staging(b)]
                   ELSE /\ Goto(b, "copy_site")
                        /\ todo' = [todo EXCEPT ![b] = @ \ {e}]
    /\ UNCHANGED <<clock, images, website_new, tmp, mode, proj, tmp_dir, warnings,
                   staged, liveBefore, nextBefore, started, killedAt>>

\* shutil.rmtree(self.tmp_dir)
RmTmp(b) ==
    /\ pc[b] = "rm_tmp"
    /\ LET res == RmtreeStep(tmp[tmp_dir[b]], todo[b])
       IN  IF res.err # ""
           THEN /\ Raise(b, res.err)
                /\ UNCHANGED <<tmp, todo>>
           ELSE /\ tmp' = [tmp EXCEPT ![tmp_dir[b]] = res.d]
                /\ IF todo[b] = {}
                   THEN Goto(b, "done") /\ UNCHANGED todo
                   ELSE /\ Goto(b, "rm_tmp")
                        /\ todo' = [todo EXCEPT ![b] = @ \ {RmPick(@)}]
    /\ UNCHANGED <<clock, images, website, website_new, mode, proj, tmp_dir, warnings,
                   staged, liveBefore, nextBefore, started, killedAt>>

\* The process of a running build is killed: nothing of the filesystem changes.
Running(b) == pc[b] \notin {"new", "done", "failed", "killed"}

Kill(b) ==
    /\ Running(b)
    /\ pc' = [pc EXCEPT ![b] = "killed"]
    /\ killedAt' = [killedAt EXCEPT ![b] = pc[b]]
    /\ UNCHANGED <<clock, images, website, website_new, tmp, mode, proj, tmp_dir, todo,
                   err, warnings, exit_code, staged, liveBefore, nextBefore, started>>

----------------------------------------------------------------------------
\* Builds that run whenever they are scheduled: the processes interleave.
\* (The killing of a process is studied on builds that run back to back.)
Next ==
    \/ Tick
    \/ \E b \in Builders :
         \/ Construct(b)
         \/ StageTemplates(b)
         \/ StageImages(b)
         \/ StagePages(b)
         \/ StagePosts(b)
         \/ StageStyles(b)
         \/ StageClean(b)
         \/ MkNew(b)
         \/ RmNewScan(b)
         \/ RmNew(b)
         \/ MkNewAgain(b)
         \/ MkSite(b)
         \/ CopyNew(b)
         \/ RmSiteScan(b)
         \/ RmSite(b)
         \/ Rename(b)
         \/ CopySite(b)
         \/ RmTmp(b)

Spec == Init /\ [][Next]_vars

\* Builds run back to back: a build takes a step only while no other build
\* is running.
Alone(b) == \A o \in Builders \ {b} : ~Running(o)

NextSeq ==
    \/ Tick
    \/ \E b \in Builders :
         \/ Alone(b) /\ Construct(b)
         \/ Alone(b) /\ StageTemplates(b)
         \/ Alone(b) /\ StageImages(b)
         \/ Alone(b) /\ StagePages(b)
         \/ Alone(b) /\ StagePosts(b)
         \/ Alone(b) /\ StageStyles(b)
         \/ Alone(b) /\ StageClean(b)
         \/ Alone(b) /\ MkNew(b)
         \/ Alone(b) /\ RmNewScan(b)
         \/ Alone(b) /\ RmNew(b)
         \/ Alone(b) /\ MkNewAgain(b)
         \/ Alone(b) /\ MkSite(b)
         \/ Alone(b) /\ CopyNew(b)
         \/ Alone(b) /\ RmSiteScan(b)
         \/ Alone(b) /\ RmSite(b)
         \/ Alone(b) /\ Rename(b)
         \/ Alone(b) /\ CopySite(b)
         \/ Alone(b) /\ RmTmp(b)
         \/ Alone(b) /\ Kill(b)

SpecSeq == Init /\ [][NextSeq]_vars

\* One build of any of the source trees, with nothing else running.
Single(b) == \A o \in Builders \ {b} : pc[o] = "new"

NextSolo ==
    \/ Tick
    \/ \E b \in Builders :
         \/ Single(b) /\ ConstructAny(b)
         \/ Single(b) /\ StageTemplates(b)
         \/ Single(b) /\ StageImages(b)
         \/ Single(b) /\ StagePages(b)
         \/ Single(b) /\ StagePosts(b)
         \/ Single(b) /\ StageStyles(b)
         \/ Single(b) /\ StageClean(b)
         \/ Single(b) /\ MkNew(b)
         \/ Single(b) /\ RmNewScan(b)
         \/ Single(b) /\ RmNew(b)
         \/ Single(b) /\ MkNewAgain(b)
         \/ Single(b) /\ MkSite(b)
         \/ Single(b) /\ CopyNew(b)
         \/ Single(b) /\ RmSiteScan(b)
         \/ Single(b) /\ RmSite(b)
         \/ Single(b) /\ Rename(b)
         \/ Single(b) /\ CopySite(b)
         \/ Single(b) /\ RmTmp(b)
         \/ Single(b) /\ Kill(b)

SpecSolo == Init /\ [][NextSolo]_vars

----------------------------------------------------------------------------
\* Vocabulary of the properties

PrePublishPcs == {"load_templates", "load_images", "build_pages", "build_posts",
                  "build_styles", "clean_tmp"}
DispatchPcs == {"mk_new", "rm_new_scan", "rm_new", "mk_new_again", "mk_site",
                "copy_new", "rm_site_scan", "rm_site", "rename", "copy_site",
                "rm_tmp"}

\* Build b took the step.
Stepped(b) == pc'[b] # pc[b] \/ todo'[b] # todo[b]

\* Where build b stands, or stood when its process was killed.
At(b) == IF pc[b] = "killed" THEN killedAt[b] ELSE pc[b]

StagedDir(b) == [ex |-> TRUE, ents |-> staged[b].ents]

\* Build o was constructed after build b.
Later(o, b) ==
    \E i, j \in 1..Len(started) : i < j /\ started[i] = b /\ started[j] = o

\* No build after b has entered _dispatch_build.
LastPublisher(b) == \A o \in Builders : Later(o, b) => ~liveBefore[o].set

\* The steps of a build in the order of the code.
Steps == <<"new", "load_templates", "load_images", "build_pages", "build_posts",
           "build_styles", "clean_tmp", "mk_new", "rm_new_scan", "rm_new",
           "mk_new_again", "mk_site", "copy_new", "rm_site_scan", "rm_site",
           "rename", "copy_site", "rm_tmp", "done">>
Pos(step) == CHOOSE i \in 1..Len(Steps) : Steps[i] = step

\* The step build b stands at, was killed at or raised in.
Where(b) == IF pc[b] = "failed" THEN err[b].at ELSE At(b)

\* Build b has left the step behind without raising in it.
Passed(b, step) == Pos(Where(b)) > Pos(step)

\* Build b has published and returned.
Published(b) == pc[b] = "done" /\ mode[b] = "production" /\ LastPublisher(b)

\* C1: during the publish step, _website shows the previous complete live
\* site or the new complete site, never anything else (a build that found a
\* complete live site).
C1_LiveIsOldOrNew ==
    \A b \in Builders :
        (pc[b] \in DispatchPcs /\ liveBefore[b].ex /\ liveBefore[b].ents # {})
            => /\ website.ex
               /\ website.ents \in {liveBefore[b].ents, staged[b].ents}

\* C2: a stage before publish that raises ends the build there: the step
\* that raises leaves _website and _website_new as they are and the build
\* takes no step afterwards.
C2_FailedStageNeverPublishes ==
    [][\A b \in Builders :
          err'[b].at \in PrePublishPcs
              => /\ pc'[b] = "failed"
                 /\ Stepped(b) => (website' = website /\ website_new' = website_new)]_vars

C2_Witness ==
    \E b \in Builders :
        /\ pc[b] = "failed"
        /\ err[b].at = "build_styles"
        /\ website = OldSite

\* C3: a build that has returned, with or without an exception, has left no
\* staging directory behind.
C3_StagingRemovedOnExit ==
    \A b \in Builders :
        (/\ pc[b] \in {"done", "failed"}
         /\ tmp_dir[b] # NoTmp
         /\ \A o \in Builders \ {b} : tmp_dir[o] # tmp_dir[b])
            => ~tmp[tmp_dir[b]].ex

\* C4: no step of a development build changes _website or _website_new, and
\* when build() returns the staging tree is still there.
C4_DevelopmentLeavesLive ==
    [][\A b \in Builders :
          (mode'[b] = "development" /\ Stepped(b))
              => /\ website' = website
                 /\ website_new' = website_new
                 /\ pc'[b] = "done" => tmp'[tmp_dir'[b]] = [ex |-> TRUE, ents |-> staged'[b].ents]]_vars

C4_Witness ==
    \E b \in Builders :
        /\ mode[b] = "development"
        /\ pc[b] = "done"
        /\ website = OldSite
        /\ tmp[tmp_dir[b]].ex
        /\ staged[b].ents # {}

Publishing(o) == pc[o] \in {"mk_site", "copy_new", "rm_site_scan", "rm_site", "rename"}

\* C5: while a build stands between creating _website_new and renaming it,
\* no step of another build deletes, overwrites or writes into _website_new.
C5_ConflictLeavesNextAlone ==
    [][\A b \in Builders :
          (Stepped(b) /\ \E o \in Builders \ {b} : Publishing(o))
              => website_new' = website_new]_vars

\* C6: two builds that have been constructed both hold a staging directory,
\* and the two are distinct.
C6_StagingDistinct ==
    \A b, o \in Builders :
        (b # o /\ pc[b] # "new" /\ pc[o] # "new")
            => /\ tmp_dir[b] # NoTmp
               /\ tmp_dir[o] # NoTmp
               /\ tmp_dir[b] # tmp_dir[o]

BothPublished ==
    /\ Len(started) = 2
    /\ \A b \in Builders : pc[b] = "done" /\ mode[b] = "production"

\* C7: after two production builds run one after the other, _website is
\* exactly the staged output of the second.
C7_SecondBuildOnly == BothPublished => website = StagedDir(started[2])

C7_Witness ==
    /\ BothPublished
    /\ proj[started[1]] = GhostTemplate
    /\ proj[started[2]] = Site
    /\ \E e \in staged[started[1]].ents : ~HasPath(website.ents, e)

MarkdownPages(p) == {p.pages[i] : i \in {j \in 1..Len(p.pages) : IsMarkdown(p.pages[j].name)}}
TemplateMissing(p, q) == <<q.template, "html">> \notin p.templates.files
HtmlOf(b, q) == File("", <<q.name[1], "html">>, "html", q.name, Rev(b))

\* Nothing but missing templates is wrong with the source tree.
SoundButForTemplates(p) ==
    /\ p.templates.ex
    /\ p.styles.ex
    /\ \A f \in p.styles.files : ~IsSass(f.name)
    /\ \A q \in MarkdownPages(p) : q.meta = "ok" /\ Len(q.name) = 2

PagesBuilt(b) ==
    /\ At(b) \notin {"new", "load_templates", "load_images", "build_pages", "failed"}
       \/ (pc[b] = "failed" /\ err[b].at \notin {"new", "load_templates", "load_images"})

\* C8: a page whose template does not exist is skipped with a warning that
\* names the page and the template; the build does not fail for it, the
\* other pages are rendered, and the staged and published output holds
\* neither an .html rendered from that page nor its source file.
C8_MissingTemplateSkipsPage ==
    \A b \in Builders :
        \A q \in MarkdownPages(proj[b]) :
            (/\ SoundButForTemplates(proj[b])
             /\ TemplateMissing(proj[b], q)
             /\ PagesBuilt(b))
                => /\ [page |-> q.name[1], template |-> q.template] \in warnings[b]
                   /\ err[b].at \notin PrePublishPcs
                   /\ staged[b].set =>
                        /\ \A e \in staged[b].ents : e.c.of # q.name
                        /\ \A o \in MarkdownPages(proj[b]) :
                              ~TemplateMissing(proj[b], o) => HtmlOf(b, o) \in staged[b].ents
                   /\ (pc[b] = "done" /\ mode[b] = "production" /\ LastPublisher(b))
                        => website = StagedDir(b)

C8_Witness ==
    \E b \in Builders :
        /\ proj[b] = GhostTemplate
        /\ mode[b] = "production"
        /\ pc[b] = "done"
        /\ [page |-> "about", template |-> "ghost"] \in warnings[b]
        /\ HtmlOf(b, Page(<<"news", "markdown">>, "base")) \in website.ents
        /\ ~HasPath(website.ents, File("", <<"about", "html">>, "", <<>>, 0))
        /\ ~HasPath(website.ents, File("", <<"about", "md">>, "", <<>>, 0))

\* C9: a publish that finds a _website_new does not fail for it; the
\* directory is empty when the copy starts, holds nothing but the build's own
\* files afterwards, and none of the files found in it reach _website.
C9_LeftoverNextCleared ==
    \A b \in Builders :
        nextBefore[b].ex
            => /\ err[b].at \notin DispatchPcs
               /\ pc[b] = "mk_site" => website_new = EmptyDir
               /\ pc[b] \in {"copy_new", "rm_site_scan", "rm_site", "rename"}
                    => (website_new.ex /\ website_new.ents \subseteq staged[b].ents)
               /\ pc[b] \in {"copy_site", "rm_tmp", "done"}
                    => \A e \in website.ents \cap nextBefore[b].ents : IsFolder(e)

C9_Witness ==
    \E b \in Builders :
        /\ nextBefore[b].ex
        /\ nextBefore[b].ents # {}
        /\ pc[b] = "done"
        /\ website = StagedDir(b)

\* C10: from the deletion of the old _website to the end of the last copy,
\* also when the process is killed there, the staging tree of the build
\* holds the complete output; its removal starts only when _website holds
\* the complete new site.
C10_StagingOutlivesSwap ==
    \A b \in Builders :
        /\ At(b) \in {"rm_site_scan", "rm_site", "rename", "copy_site"}
             => tmp[tmp_dir[b]] = StagedDir(b)
        /\ (At(b) = "rm_tmp" /\ LastPublisher(b)) => website = StagedDir(b)

C10_Witness ==
    \E b \in Builders :
        /\ pc[b] = "killed"
        /\ killedAt[b] = "rename"
        /\ ~website.ex
        /\ liveBefore[b].ex
        /\ staged[b].ents # {}
        /\ tmp[tmp_dir[b]] = StagedDir(b)

Collides(p, f) ==
    /\ EndsWith(f.name, "css")
    /\ \E g \in p.styles.files : IsSass(g.name) /\ CompiledName(g.name) = f.name

PlainCopy(b, f) == File("styles", f.name, "css", f.name, Rev(b))

BaseName(name) == SubSeq(name, 1, Len(name) - 1)

Rendered(b, q) == File("", BaseName(q.name) \o <<"html">>, "html", q.name, Rev(b))

\* C12: a production build that succeeds publishes, for every .md or
\* .markdown file of _pages with valid front matter and an existing
\* template, the .html of the same base name rendered from that file, also
\* when the base name holds a dot; nothing is published from other files.
C12_EveryPagePublished ==
    \A b \in Builders :
        Published(b)
            => /\ \A q \in MarkdownPages(proj[b]) :
                     (q.meta = "ok" /\ ~TemplateMissing(proj[b], q))
                         => Rendered(b, q) \in website.ents
               /\ \A e \in website.ents :
                     \A i \in 1..Len(proj[b].pages) :
                         e.c.of = proj[b].pages[i].name => IsMarkdown(e.c.of)

OutputFolders == {"images", "styles", "posts"}

\* An entry that is neither an output folder, nor a file of one, nor an
\* .html at the top level.
Transient(e) ==
    IF e.dir = "" THEN ~EndsWith(e.name, "html") ELSE e.dir \notin OutputFolders

\* C13: the tree _clean_tmp leaves, and so the published site, holds
\* nothing but images/, styles/, posts/ and the .html files of the rendered
\* pages: no .md or .markdown source and no other folder such as the staged
\* _templates, whatever directories the working directory holds.
C13_NoTransientArtifacts ==
    \A b \in Builders :
        /\ staged[b].set
              => /\ \A e \in staged[b].ents : ~Transient(e)
                 /\ \A e \in staged[b].ents :
                       e.c.kind = "html" => \E q \in MarkdownPages(proj[b]) : e.c.of = q.name
        /\ Published(b) => \A e \in website.ents : ~Transient(e)

InImages(ents) == {e \in ents : e.dir = "images"}

\* C14: a build without _static/images does not fail for it: the registry
\* stays empty, nothing is staged under images, the condition is logged and
\* the later stages run; when nothing else is wrong with the source tree the
\* build does not fail at all and a production build publishes its tree.
C14_MissingImagesTolerated ==
    \A b \in Builders :
        ~proj[b].images.ex
            => /\ err[b].at # "load_images"
               /\ Passed(b, "load_images")
                    => /\ images[b] = <<>>
                       /\ ImagesNotFound \in warnings[b]
                       /\ tmp[tmp_dir[b]].ex => InImages(Staging(b)) = {}
                       /\ InImages(staged[b].ents) = {}
               /\ SoundButForTemplates(proj[b])
                    => /\ pc[b] # "failed"
                       /\ Published(b) => (staged[b].set /\ website = StagedDir(b))

C14_Witness ==
    \E b \in Builders :
        /\ ~proj[b].images.ex
        /\ Published(b)
        /\ ImagesNotFound \in warnings[b]
        /\ images[b] = <<>>
        /\ website = StagedDir(b)
        /\ HasPath(website.ents, Folder("styles"))

\* Nothing but the front matter of some pages is wrong with the source tree.
SoundButForMetadata(p) ==
    /\ p.templates.ex
    /\ p.styles.ex
    /\ \A f \in p.styles.files : ~IsSass(f.name)
    /\ \A q \in MarkdownPages(p) :
          Len(q.name) = 2 /\ (q.meta = "ok" => ~TemplateMissing(p, q))

\* C15: a content file whose front matter is malformed or holds no keys (no
\* template key either) never makes the build fail: the other content files
\* are rendered and a production build publishes its tree.
C15_BadMetadataTolerated ==
    \A b \in Builders :
        (/\ SoundButForMetadata(proj[b])
         /\ \E q \in MarkdownPages(proj[b]) : q.meta # "ok")
            => /\ pc[b] # "failed"
               /\ staged[b].set
                    => \A o \in MarkdownPages(proj[b]) :
                          o.meta = "ok" => Rendered(b, o) \in staged[b].ents
               /\ Published(b) => website = StagedDir(b)

\* C16: the process of a build exits with a non-zero code when build()
\* raised and with zero when it returned; warnings do not change the code.
C16_ExitCodeTellsFailure ==
    \A b \in Builders :
        exit_code[b].exited
            => /\ pc[b] \in {"done", "failed"}
               /\ pc[b] = "failed" <=> exit_code[b].code # 0

\* The step at which build() writes the entries of a kind into the staging
\* tree.
WrittenAt(e) ==
    CASE e.c.kind = "template" -> "load_templates"
      [] e.c.kind = "image" -> "load_images"
      [] e.c.kind \in {"md", "html"} -> "build_pages"
      [] e.c.kind \in {"css", "compiled"} -> "build_styles"
      [] OTHER -> IF e.dir = "posts" THEN "build_posts"
                  ELSE IF e.dir = "styles" THEN "build_styles"
                  ELSE IF e.dir = "images" THEN "load_images"
                  ELSE "load_templates"

\* C17: the steps of a build follow one another in the order load
\* templates, load and stage images, render pages, posts, styles, cleanup,
\* publish: every step leads to the next one (or ends the build), every
\* entry of the staging tree is written by the stage it belongs to, the
\* registry is set by the image stage only, entries are removed by the
\* cleanup and after the publish only, and _website and _website_new are
\* touched only once the cleanup has returned.
C17_StagesInOrder ==
    [][\A b \in Builders :
          Stepped(b)
              => /\ (pc[b] \in PrePublishPcs \cup {"new"} /\ pc'[b] \notin {"failed", "killed"})
                      => \/ pc'[b] = Steps[Pos(pc[b]) + 1]
                         \/ pc[b] = "clean_tmp" /\ pc'[b] = "done"
                 /\ (pc[b] \in DispatchPcs /\ pc'[b] \notin {"failed", "killed"})
                      => Pos(pc'[b]) >= Pos(pc[b])
                 /\ images'[b] # images[b] => pc[b] = "load_images"
                 /\ (pc[b] \in PrePublishPcs /\ pc[b] # "clean_tmp")
                      => /\ Staging(b) \subseteq tmp'[tmp_dir[b]].ents
                         /\ \A e \in tmp'[tmp_dir[b]].ents \ Staging(b) : WrittenAt(e) = pc[b]
                 /\ pc[b] = "clean_tmp" => tmp'[tmp_dir[b]].ents \subseteq Staging(b)
                 /\ (website' # website \/ website_new' # website_new)
                      => (pc[b] \in DispatchPcs /\ staged[b].set)]_vars

C17_Witness ==
    \E b \in Builders :
        /\ proj[b] = WithImages
        /\ Published(b)
        /\ images[b] = <<<<"logo", "png">>, <<"photo", "png">>>>
        /\ \E e \in website.ents : e.c.kind = "html"
        /\ \E e \in website.ents : e.c.kind = "image"
        /\ \E e \in website.ents : e.c.kind = "css"
        /\ \A e \in website.ents : e.c.kind \notin {"template", "md"}

StagedImage(b, image) == File("images", image, "image", image, Rev(b))

\* C18: once the image stage is over and the build goes on, every image of
\* the registry lies in the images folder of the staging tree.
C18_RegistryStaged ==
    \A b \in Builders :
        \A i \in 1..Len(images[b]) :
            /\ pc[b] \in {"build_pages", "build_posts", "build_styles", "clean_tmp"}
                 => StagedImage(b, images[b][i]) \in Staging(b)
            /\ staged[b].set => StagedImage(b, images[b][i]) \in staged[b].ents

SassOf(p) == {f \in p.styles.files : IsSass(f.name)}

\* C19: when _static/styles holds .sass or .scss files (all of them well
\* formed), the style stage does not fail and every one of them has its
\* compiled .css in the styles folder of the staging tree.
C19_CompilesStylesSource ==
    \A b \in Builders :
        (/\ proj[b].styles.ex
         /\ SassOf(proj[b]) # {}
         /\ \A f \in SassOf(proj[b]) : f.ok)
            => /\ err[b].at # "build_styles"
               /\ pc[b] = "clean_tmp"
                    => \A f \in SassOf(proj[b]) :
                          HasPath(Staging(b), File("styles", CompiledName(f.name), "", <<>>, 0))

\* What a build may log: the missing image directory and the pages whose
\* template was not found.
Loggable(p) ==
    {ImagesNotFound}
        \cup {[page |-> q.name[1], template |-> q.template] : q \in MarkdownPages(p)}

\* C20: a build without _templates fails in the template stage, a build
\* without _static/styles fails in the style stage at the latest; the
\* exception reaches the caller, nothing is logged in its place and the
\* build never enters the publish step.
C20_MissingDirIsFatal ==
    \A b \in Builders :
        /\ ~proj[b].templates.ex
              => /\ pc[b] \in {"new", "load_templates", "killed", "failed"}
                 /\ pc[b] = "failed"
                      => err[b] = [at |-> "load_templates", exc |-> "FileNotFoundError"]
        /\ ~proj[b].styles.ex
              => /\ pc[b] \in {"new", "killed", "failed"} \cup (PrePublishPcs \ {"clean_tmp"})
                 /\ (pc[b] = "failed" /\ err[b].at = "build_styles")
                      => err[b].exc = "FileNotFoundError"
        /\ (~proj[b].templates.ex \/ ~proj[b].styles.ex)
              => /\ At(b) \notin DispatchPcs
                 /\ ~staged[b].set
                 /\ ~liveBefore[b].set
                 /\ warnings[b] \subseteq Loggable(proj[b])

C20_Witness ==
    \E b \in Builders :
        /\ proj[b] = NoTemplatesDir
        /\ mode[b] = "production"
        /\ err[b] = [at |-> "load_templates", exc |-> "FileNotFoundError"]
        /\ pc[b] = "failed"
        /\ website = OldSite
        /\ website_new = Absent

\* Two production builds have both published and returned, and their staged
\* trees differ.
BothReturned ==
    /\ \A b \in Builders : pc[b] = "done" /\ mode[b] = "production" /\ staged[b].set
    /\ \A b, o \in Builders : b # o => staged[b].ents # staged[o].ents

\* C21: when two production builds with different outputs have both
\* published without an error, however their publish steps interleaved,
\* _website is the staged tree of one of the two and not a mixture.
C21_NoMixedSite ==
    BothReturned => \E b \in Builders : website = StagedDir(b)

====
